---- MODULE Spec2Model ----
(***************************************************************************)
(* GitHubAnalyzer: the repository analysis and documentation synthesis     *)
(* pipeline (handleAnalyze and the generate* functions) as a state machine.*)
(*                                                                         *)
(* Text is modelled as a sequence of tokens: a URL such as                 *)
(* "github.com/o/n.git" is <<"github.com", "/", "o", "/", "n", ".git">>,   *)
(* a file name such as "index.js" is <<"index", ".js">>.                   *)
(***************************************************************************)
EXTENDS Integers, Sequences, FiniteSets, TLC

\* ---------------------------------------------------------------- bounds
\* Number of analysis runs (valid invocations of handleAnalyze) in a session.
MaxRuns == 2
\* Length of the long top-level listing the sampler scenario serves.
BigListingLen == 16

\* ------------------------------------------------------ program constants
\* .slice(0, 10): the Content Sampler's cap.
SampleCap == 10
\* contents.slice(0, 20): the Structure section's cap.
TreeCap == 20

\* Two of the state variables, declared here for the definitions below that
\* read them; the others follow with the state.
VARIABLES
    documentation,  \* useState(null): the stored bundle
    lastSynthesis   \* history: inputs and extractor calls of the last Step 6

\* JavaScript null / undefined.
NULL == [null |-> TRUE]

\* innerHTML = "": a container without content.
Empty == [markup |-> "", chart |-> <<>>]

Min(S) == CHOOSE x \in S : \A y \in S : x <= y
Max(S) == CHOOSE x \in S : \A y \in S : x >= y

\* ------------------------------------------------------------ URL Resolver
\* String.prototype.trim: leading and trailing whitespace removed.
Trim(s) ==
    LET solid == {i \in 1..Len(s) : s[i] # " "}
    IN  IF solid = {} THEN <<>> ELSE SubSeq(s, Min(solid), Max(solid))

\* End of the longest run of non-slash tokens starting at i: the greedy [^\/]+
\* (i - 1 when the run is empty).
RunEnd(s, i) ==
    LET stops == {j \in i..Len(s) : s[j] = "/"}
    IN  IF stops = {} THEN Len(s) ELSE Min(stops) - 1

\* MatchAt with the pattern cut after the owner: /github\.com\/([^\/]+)/.
MatchAt_OwnerOnly(s, i) ==
    LET oEnd == RunEnd(s, i + 2)
    IN  IF /\ i + 1 <= Len(s)
           /\ s[i] = "github.com"
           /\ s[i + 1] = "/"
           /\ oEnd >= i + 2
        THEN [owner |-> SubSeq(s, i + 2, oEnd),
              name |-> SubSeq(s, oEnd + 2, RunEnd(s, oEnd + 2))]
        ELSE NULL

\* One attempt of /github\.com\/([^\/]+)\/([^\/]+)/ at position i.
MatchAt(s, i) ==
    LET oEnd == RunEnd(s, i + 2)
        nEnd == RunEnd(s, oEnd + 2)
    IN  IF /\ i + 1 <= Len(s)
           /\ s[i] = "github.com"
           /\ s[i + 1] = "/"
           /\ oEnd >= i + 2
           /\ oEnd + 1 <= Len(s)
           /\ nEnd >= oEnd + 2
        THEN [owner |-> SubSeq(s, i + 2, oEnd), name |-> SubSeq(s, oEnd + 2, nEnd)]
        ELSE NULL

\* repoUrl.match(...): the leftmost match, or null.
UrlMatch(s) ==
    LET hits == {i \in 1..Len(s) : MatchAt(s, i) # NULL}
    IN  IF hits = {} THEN NULL ELSE MatchAt(s, Min(hits))

\* name.replace('.git', ''): a string pattern replaces its FIRST occurrence.
ReplaceGit(name) ==
    LET at == {i \in 1..Len(name) : name[i] = ".git"}
    IN  IF at = {} THEN name
        ELSE SubSeq(name, 1, Min(at) - 1) \o SubSeq(name, Min(at) + 1, Len(name))

\* Input strings: "", " ", "not a url", "github.com/o", "https://github.com/o/n",
\* "https://github.com/o/n.git", "github.com/o/n.github.io" and
\* "github.com/o/n.github.io.git".
UrlInputs ==
    { <<>>,
      <<" ">>,
      <<"not", " ", "a", " ", "url">>,
      <<"github.com", "/", "o">>,
      <<"https://", "github.com", "/", "o", "/", "n">>,
      <<"https://", "github.com", "/", "o", "/", "n", ".git">>,
      <<"github.com", "/", "o", "/", "n", ".git", "hub.io">>,
      <<"github.com", "/", "o", "/", "n", ".git", "hub.io", ".git">> }

\* The inputs typed in a user session.
SessionUrls ==
    { <<>>,
      <<"not", " ", "a", " ", "url">>,
      <<"github.com", "/", "o">>,
      <<"https://", "github.com", "/", "o", "/", "n">>,
      <<"https://", "github.com", "/", "o", "/", "n", ".git">>,
      <<"github.com", "/", "o", "/", "n", ".git", "hub.io">> }

\* ------------------------------------------------------------ JSON values
\* A string-typed JSON field that is null (a template literal renders it "null").
JsNull == "null"

\* Truthiness of a string-typed value: null, undefined and "" are falsy.
Truthy(v) == v \notin {JsNull, ""}

\* A JSON object is [entries |-> <<key, value>> pairs in key order]; an absent
\* object is NULL.
Obj(entries) == [entries |-> entries]

Has(obj, k) == obj # NULL /\ \E i \in 1..Len(obj.entries) : obj.entries[i][1] = k

Get(obj, k) ==
    IF Has(obj, k)
    THEN obj.entries[CHOOSE i \in 1..Len(obj.entries) : obj.entries[i][1] = k][2]
    ELSE JsNull

\* Object.keys(obj || {})
Keys(obj) == IF obj = NULL THEN <<>> ELSE [i \in 1..Len(obj.entries) |-> obj.entries[i][1]]

\* packageInfo?.dependencies?.<k> used as a condition
Dep(packageInfo, k) == packageInfo # NULL /\ Truthy(Get(packageInfo.dependencies, k))

\* packageInfo?.scripts?.<k> used as a condition
Script(packageInfo, k) == packageInfo # NULL /\ Truthy(Get(packageInfo.scripts, k))

\* array.slice(0, n)
Slice(s, n) == SubSeq(s, 1, IF Len(s) < n THEN Len(s) ELSE n)

\* array.includes(x)
SeqIncludes(s, x) == \E i \in 1..Len(s) : s[i] = x

\* ------------------------------------------------------- directory entries
\* download_url stands for what a fetch of it meets: "ok" (200), "missing" (an
\* error status with an error page) or "unreachable" (the fetch rejects).
File(name, size, url) == [name |-> name, type |-> "file", size |-> size, download_url |-> url]
Dir(name) == [name |-> name, type |-> "dir", size |-> 0, download_url |-> JsNull]

\* name.endsWith(ext)
EndsWith(name, ext) == Len(name) > 0 /\ name[Len(name)] = ext

\* The filter of the Content Sampler: files on the allow-list.
IsKeyFile(item) ==
    /\ item.type = "file"
    /\ \/ EndsWith(item.name, ".js") \/ EndsWith(item.name, ".ts")
       \/ EndsWith(item.name, ".jsx") \/ EndsWith(item.name, ".tsx")
       \/ EndsWith(item.name, ".py") \/ EndsWith(item.name, ".java")
       \/ item.name = <<"README", ".md">>
       \/ item.name = <<"index", ".html">>

\* SelectKeyFiles without .slice(0, 10).
SelectKeyFiles_NoCap(items) == SelectSeq(items, IsKeyFile)

\* contents.filter(...).slice(0, 10): the files whose download is started.
SelectKeyFiles(items) == Slice(SelectSeq(items, IsKeyFile), SampleCap)

\* (await Promise.all(filePromises)).filter(Boolean): the settled values in
\* the order of the promises, nulls removed.
IsFile(v) == v # NULL
JoinResults(promises) == SelectSeq([i \in 1..Len(promises) |-> promises[i].value], IsFile)

\* ------------------------------------------------------- Static Extractor
\* Tokens that are one \w+ word.
WordTokens == {"function", "const", "import", "from", "export", "start", "App", "x"}
IsWord(t) == t \in WordTokens
\* Tokens that are a quoted module path.
QuotedTokens == {"'react'", "'./App'"}

\* First index >= i that is not whitespace (Len(s) + 1 when there is none).
SkipWs(s, i) ==
    LET solid == {j \in i..Len(s) : s[j] \notin {" ", "\n"}}
    IN  IF solid = {} THEN Len(s) + 1 ELSE Min(solid)

\* FunctionMatchAt for the pattern with its group made optional,
\* /(?:function\s+(\w+)|const\s+(\w+)\s*=|(\w+)\s*:\s*function)?/: where no
\* alternative matches, the empty string does, with no capture.
FunctionMatchAt_Optional(s, i) ==
    LET j == SkipWs(s, i + 1)
        k == SkipWs(s, j + 1)
    IN  IF /\ s[i] = "function" /\ j > i + 1 /\ j <= Len(s) /\ s[j] \in WordTokens
        THEN [capture |-> s[j], last |-> j]
        ELSE IF /\ s[i] = "const" /\ j > i + 1 /\ j <= Len(s) /\ s[j] \in WordTokens
                /\ k <= Len(s) /\ s[k] = "="
        THEN [capture |-> s[j], last |-> k]
        ELSE IF /\ s[i] \in WordTokens /\ j <= Len(s) /\ s[j] = ":"
                /\ k <= Len(s) /\ s[k] = "function"
        THEN [capture |-> s[i], last |-> k]
        ELSE [capture |-> JsNull, last |-> i - 1]

\* One attempt of
\* /(?:function\s+(\w+)|const\s+(\w+)\s*=|(\w+)\s*:\s*function)/ at position i:
\* the capture and the index of the last token matched, or NULL.
FunctionMatchAt(s, i) ==
    LET j == SkipWs(s, i + 1)
        k == SkipWs(s, j + 1)
    IN  IF /\ s[i] = "function" /\ j > i + 1 /\ j <= Len(s) /\ IsWord(s[j])
        THEN [capture |-> s[j], last |-> j]
        ELSE IF /\ s[i] = "const" /\ j > i + 1 /\ j <= Len(s) /\ IsWord(s[j])
                /\ k <= Len(s) /\ s[k] = "="
        THEN [capture |-> s[j], last |-> k]
        ELSE IF /\ IsWord(s[i]) /\ j <= Len(s) /\ s[j] = ":"
                /\ k <= Len(s) /\ s[k] = "function"
        THEN [capture |-> s[i], last |-> k]
        ELSE NULL

\* The while loop over functionRegex.exec(content): lastIndex starts at 0 for
\* the regex literal created by this call and moves past each match.
RECURSIVE ExecFunctions(_, _)
ExecFunctions(s, lastIndex) ==
    LET hits == {i \in lastIndex..Len(s) : FunctionMatchAt(s, i) # NULL}
    IN  IF hits = {} THEN <<>>
        ELSE LET m == FunctionMatchAt(s, Min(hits))
             IN  <<m.capture>> \o ExecFunctions(s, m.last + 1)

\* extractFunctions with one regex object kept between calls, its lastIndex
\* left behind by an earlier synthesis.
extractFunctions_SharedRegex(content) ==
    ExecFunctions(content, IF lastSynthesis = NULL THEN 1 ELSE 4)

extractFunctions(content) == ExecFunctions(content, 1)

\* One attempt of /import.+from\s+['"]([^'"]+)['"]/ at position i: .+ is greedy
\* and stays on the line, so the LAST from-clause of the line is the one matched.
ImportMatchAt(s, i) ==
    LET eol == Min({j \in i..Len(s) : s[j] = "\n"} \cup {Len(s) + 1})
        ends == {q \in i + 3..eol - 1 :
                    /\ s[q] \in QuotedTokens
                    /\ \E f \in i + 2..q - 2 :
                          /\ s[f] = "from"
                          /\ \A w \in f + 1..q - 1 : s[w] = " "}
    IN  IF s[i] = "import" /\ ends # {}
        THEN [capture |-> s[Max(ends)], last |-> Max(ends)]
        ELSE NULL

RECURSIVE ExecImports(_, _)
ExecImports(s, lastIndex) ==
    LET hits == {i \in lastIndex..Len(s) : ImportMatchAt(s, i) # NULL}
    IN  IF hits = {} THEN <<>>
        ELSE LET m == ImportMatchAt(s, Min(hits))
             IN  <<m.capture>> \o ExecImports(s, m.last + 1)

extractImports(content) == ExecImports(content, 1)

\* ------------------------------------------------ Documentation Synthesizer
\* name.includes(word), by token: the words each token of a file name contains.
NameIncludes(name, word) ==
    \E i \in 1..Len(name) :
        \/ name[i] = word
        \/ name[i] = "application" /\ word = "app"

\* name.toLowerCase()
LowerToken(t) == IF t = "README" THEN "readme" ELSE IF t = "Main" THEN "main" ELSE t
ToLowerCase(name) == [i \in 1..Len(name) |-> LowerToken(name[i])]

\* files.some(f => f.name.endsWith(ext))
SomeEndsWith(files, ext) == \E i \in 1..Len(files) : EndsWith(files[i].name, ext)

determineProjectType(files, packageInfo) ==
    IF Dep(packageInfo, "react") THEN "React Web Application"
    ELSE IF Dep(packageInfo, "vue") THEN "Vue.js Application"
    ELSE IF Dep(packageInfo, "express") THEN "Node.js/Express Server"
    ELSE IF SomeEndsWith(files, ".py") THEN "Python Application"
    ELSE IF SomeEndsWith(files, ".java") THEN "Java Application"
    ELSE "General Software Project"

\* The lookup table of generateOverview, in the order of its if statements.
TechTable ==
    << <<"react", "React">>, <<"vue", "Vue.js">>, <<"angular", "Angular">>,
       <<"express", "Express.js">>, <<"tailwindcss", "Tailwind CSS">>,
       <<"typescript", "TypeScript">> >>

IsDetected(deps, row) == SeqIncludes(deps, row[1])

TechStack(packageInfo) ==
    IF packageInfo = NULL THEN <<>>
    ELSE LET deps == Keys(packageInfo.dependencies)
             rows == SelectSeq(TechTable, LAMBDA row : IsDetected(deps, row))
         IN  [i \in 1..Len(rows) |-> rows[i][2]]

\* new Date(iso).toLocaleDateString() in the browser's locale, which is fixed
\* while the page lives (here en-US): 2024-03-09 reads 3/9/2024.
NoLeadingZero(t) == IF t = "03" THEN "3" ELSE IF t = "09" THEN "9" ELSE t
toLocaleDateString(iso) ==
    << NoLeadingZero(iso[3]), "/", NoLeadingZero(iso[5]), "/", iso[1] >>

generateOverview(repoData, files, packageInfo) ==
    [ title       |-> repoData.name,
      description |-> repoData.description,
      owner       |-> repoData.owner,
      language    |-> repoData.language,
      stars       |-> repoData.stargazers_count,
      forks       |-> repoData.forks_count,
      updated     |-> toLocaleDateString(repoData.updated_at),
      techStack   |-> IF Len(TechStack(packageInfo)) > 0 THEN TechStack(packageInfo)
                      ELSE <<"Technology stack detected from code analysis">>,
      features    |-> IF \E i \in 1..Len(files) :
                              ToLowerCase(files[i].name) = <<"readme", ".md">>
                      THEN "Features extracted from README and code analysis"
                      ELSE "Features analyzed from codebase structure",
      projectType |-> determineProjectType(files, packageInfo) ]

generateStructure(contents, files) ==
    [ tree  |-> [i \in 1..Len(Slice(contents, TreeCap)) |->
                    [name |-> contents[i].name, slash |-> contents[i].type = "dir"]],
      total |-> Len(files),
      keyFiles |-> [i \in 1..Len(files) |-> [name |-> files[i].name, size |-> files[i].size]] ]

IsCodeFile(f) ==
    \/ EndsWith(f.name, ".js") \/ EndsWith(f.name, ".ts")
    \/ EndsWith(f.name, ".jsx") \/ EndsWith(f.name, ".tsx")

\* The number of entries shown per module: .slice(0, 5).
ShownCap == 5

\* ModuleBlock without .slice(0, 5) on the functions.
ModuleBlock_Uncapped(file) ==
    [ name |-> file.name,
      size |-> file.size,
      functions |-> Len(extractFunctions(file.content)),
      keyFunctions |-> extractFunctions(file.content),
      dependencies |-> Slice(extractImports(file.content), ShownCap) ]

ModuleBlock(file) ==
    [ name |-> file.name,
      size |-> file.size,
      functions |-> Len(extractFunctions(file.content)),
      keyFunctions |-> Slice(extractFunctions(file.content), ShownCap),
      dependencies |-> Slice(extractImports(file.content), ShownCap) ]

generateModules(files, packageInfo) ==
    [ blocks |-> LET codeFiles == SelectSeq(files, IsCodeFile)
                 IN  [i \in 1..Len(codeFiles) |-> ModuleBlock(codeFiles[i])],
      analysis |-> IF packageInfo # NULL
                   THEN [production  |-> Len(Keys(packageInfo.dependencies)),
                         development |-> Len(Keys(packageInfo.devDependencies))]
                   ELSE [none |-> "No package.json found"] ]

\* The Static Extractor calls generateModules makes, in call order: for every
\* code file extractFunctions, then extractImports.
Invocations(files) ==
    LET codeFiles == SelectSeq(files, IsCodeFile)
    IN  [ k \in 1..2 * Len(codeFiles) |->
            LET content == codeFiles[(k + 1) \div 2].content
            IN  IF k % 2 = 1
                THEN [fn |-> "extractFunctions", text |-> content,
                      result |-> extractFunctions(content)]
                ELSE [fn |-> "extractImports", text |-> content,
                      result |-> extractImports(content)] ]

\* The pieces of the diagram template literals: the indentation of a template
\* line, a node with its label, the arrow, and one edge line with its line end.
Indent == "    "
Decl(id, label) == << id, "[", label, "]" >>
Arrow == << " ", "-->", " " >>
Row(from, to) == << Indent >> \o from \o Arrow \o to \o << "\n" >>
Header == << "graph", " ", "TD", "\n" >>

\* The text of the frontend template, the text of the ternary spliced in.
FrontendText(hasDatabase) ==
    Header
    \o Row(Decl("A", "User Interface"), Decl("B", "React Components"))
    \o Row(<<"B">>, Decl("C", "State Management"))
    \o Row(<<"C">>, Decl("D", "API Calls"))
    \o Row(<<"D">>, Decl("E", "Backend Services"))
    \o Row(<<"E">>, Decl("F", "Database"))
    \o << Indent, "\n" >>
    \o Row(<<"B">>, Decl("G", "UI Components"))
    \o Row(<<"G">>, Decl("H", "Routing"))
    \o Row(<<"H">>, Decl("I", "Pages/Views"))
    \o << Indent, "\n" >>
    \o << Indent >>
    \o ( IF hasDatabase
         THEN <<"E">> \o Arrow \o Decl("J", "Database Operations")
              \o << "\n", Indent >> \o <<"J">> \o Arrow \o Decl("K", "Data Models")
         ELSE <<>> )

\* The generic template with the data-layer branch hung on F, the node the
\* frontend template calls Database.
GenericText_ReusedId(hasDatabase) ==
    Header
    \o Row(Decl("A", "Application Entry"), Decl("B", "Core Logic"))
    \o Row(<<"B">>, Decl("C", "Data Processing"))
    \o Row(<<"C">>, Decl("D", "Output/Results"))
    \o << Indent, "\n" >>
    \o Row(<<"B">>, Decl("E", "Helper Functions"))
    \o Row(<<"E">>, Decl("F", "Utilities"))
    \o << Indent, "\n" >>
    \o << Indent >>
    \o ( IF hasDatabase
         THEN <<"C">> \o Arrow \o Decl("F", "Database")
              \o << "\n", Indent >> \o <<"F">> \o Arrow \o Decl("H", "Data Models")
         ELSE <<>> )

\* The text of the generic template, the text of the ternary spliced in.
GenericText(hasDatabase) ==
    Header
    \o Row(Decl("A", "Application Entry"), Decl("B", "Core Logic"))
    \o Row(<<"B">>, Decl("C", "Data Processing"))
    \o Row(<<"C">>, Decl("D", "Output/Results"))
    \o << Indent, "\n" >>
    \o Row(<<"B">>, Decl("E", "Helper Functions"))
    \o Row(<<"E">>, Decl("F", "Utilities"))
    \o << Indent, "\n" >>
    \o << Indent >>
    \o ( IF hasDatabase
         THEN <<"C">> \o Arrow \o Decl("G", "Database")
              \o << "\n", Indent >> \o <<"G">> \o Arrow \o Decl("H", "Data Models")
         ELSE <<>> )

\* The diagram description: which template was taken, whether the data-layer
\* branch was spliced in, and the text returned.
generateMermaidDiagram(files, packageInfo) ==
    LET hasReact == Dep(packageInfo, "react")
        hasDatabase == Dep(packageInfo, "mongoose") \/ Dep(packageInfo, "prisma")
    IN  [ topology  |-> IF hasReact THEN "frontend" ELSE "generic",
          dataLayer |-> hasDatabase,
          text      |-> IF hasReact THEN FrontendText(hasDatabase)
                        ELSE GenericText(hasDatabase) ]

generateInstallation(packageInfo, repoData) ==
    [ clone |-> <<repoData.owner, repoData.name>>,
      cd |-> repoData.name,
      installCmd |-> IF Script(packageInfo, "install") THEN "npm install" ELSE "npm install",
      startCmd |-> IF Script(packageInfo, "start") THEN "npm start"
                   ELSE IF Script(packageInfo, "dev") THEN "npm run dev"
                   ELSE "npm start",
      prerequisites |-> IF packageInfo # NULL THEN "Node.js" ELSE "Check repository",
      scripts |-> IF packageInfo # NULL /\ packageInfo.scripts # NULL
                  THEN packageInfo.scripts.entries ELSE <<>> ]

generateUsageExample(files, packageInfo) ==
    IF Dep(packageInfo, "react") THEN "react" ELSE "generic"

\* The number of dependencies the Usage section lists: .slice(0, 10).
UsageDepsCap == 10

IsMainFile(f) ==
    \/ NameIncludes(f.name, "index") \/ NameIncludes(f.name, "main")
    \/ NameIncludes(f.name, "app")

generateUsage(files, packageInfo, repoData) ==
    [ mainFile |-> LET found == SelectSeq(files, IsMainFile)
                   IN  IF Len(found) > 0 THEN found[1].name ELSE <<>>,
      configuration |-> packageInfo # NULL,
      api |-> \E i \in 1..Len(files) :
                  \/ SeqIncludes(files[i].content, "function")
                  \/ SeqIncludes(files[i].content, "export"),
      example |-> generateUsageExample(files, packageInfo),
      advanced |-> IF packageInfo # NULL /\ packageInfo.dependencies # NULL
                   THEN Slice(Keys(packageInfo.dependencies), UsageDepsCap)
                   ELSE <<>> ]

\* Synthesize with a memo across runs: a stored bundle is handed out again.
Synthesize_Memo(repoData, contents, files, packageInfo) ==
    IF documentation # NULL THEN documentation
    ELSE [ overview       |-> generateOverview(repoData, files, packageInfo),
           structure      |-> generateStructure(contents, files),
           modules        |-> generateModules(files, packageInfo),
           mermaidDiagram |-> generateMermaidDiagram(files, packageInfo),
           installation   |-> generateInstallation(packageInfo, repoData),
           usage          |-> generateUsage(files, packageInfo, repoData) ]

\* Step 6 of handleAnalyze: the six sections, then one setDocumentation.
Synthesize(repoData, contents, files, packageInfo) ==
    [ overview       |-> generateOverview(repoData, files, packageInfo),
      structure      |-> generateStructure(contents, files),
      modules        |-> generateModules(files, packageInfo),
      mermaidDiagram |-> generateMermaidDiagram(files, packageInfo),
      installation   |-> generateInstallation(packageInfo, repoData),
      usage          |-> generateUsage(files, packageInfo, repoData) ]

\* ------------------------------------------------------------------ state
VARIABLES
    repoUrl,        \* useState(""): the URL field
    isAnalyzing,    \* useState(false): the in-progress flag
    repository,     \* useState(null): the repository record
    toast,          \* the last toast shown
    pc,             \* per run: the await the run is suspended at
    urlMatch,       \* per run: owner, name and repoName taken from the URL
    repoData,       \* per run: the metadata response body
    contents,       \* per run: the listing response body
    packageInfo,    \* per run: the decoded manifest, or NULL
    packageStatus,  \* per run: what the manifest request came back with
    filePromises,   \* per run: the download promises, in selection order
    analyzedFiles,  \* per run: the joined sample
    webContext,     \* per run: the web-search response body, or NULL
    calls,          \* per run: how often each request / state setter was called
    outcome,        \* per run: how the run ended and at which await
    env,            \* the scenario followed
    exported,       \* the document last handed to the clipboard or saved
    scan,           \* an extraction pass followed iteration by iteration, or NULL
    chart,          \* MermaidDiagram: the chart prop, empty while it has none
    innerHTML,      \* MermaidDiagram: mermaidRef.current.innerHTML
    renders         \* MermaidDiagram: the mermaid.render promises not yet settled

vars == << repoUrl, isAnalyzing, repository, documentation, toast, pc, urlMatch,
           repoData, contents, packageInfo, packageStatus, filePromises,
           analyzedFiles, webContext, calls, outcome, env, exported, lastSynthesis,
           scan, chart, innerHTML, renders >>

\* The state outside the GitHubAnalyzer session.
detached == << scan, chart, innerHTML, renders >>

component == << repoUrl, isAnalyzing, repository, documentation, toast >>
locals == << urlMatch, repoData, contents, packageInfo, packageStatus,
             filePromises, analyzedFiles, webContext >>

Runs == 1..MaxRuns

NoCalls ==
    [repo |-> 0, contents |-> 0, package |-> 0, search |-> 0,
     setRepository |-> 0, setDocumentation |-> 0, files |-> <<>>]

NoOutcome == [result |-> "none", stage |-> "idle"]

Toast(title, description) == [title |-> title, description |-> description]

\* ------------------------------------------------ Repository Data Source
\* File texts the Data Source serves.
StartText == <<"function", " ", "start", "(", ")", "{", "}">>
ErrorBody == <<"404", ":", " ", "Not", " ", "Found">>
\* Two import lines and a const.
ImportText ==
    << "import", " ", "App", " ", "from", " ", "'./App'", "\n",
       "import", " ", "x", " ", "from", " ", "'react'", "\n",
       "const", " ", "x", " ", "=", " ", "App" >>
\* Six definitions, of all three forms the extractor knows.
ManyText ==
    << "function", " ", "start", "\n", "function", " ", "App", "\n",
       "const", " ", "x", "=", "\n", "x", ":", " ", "function", "\n",
       "function", " ", "x", "\n", "export", " ", "const", " ", "start", " ", "=" >>

\* The text behind a download URL that answers 200: the entry's size tells
\* which of the served texts it is.
ServedText(file) ==
    IF file.size = 158 THEN ImportText
    ELSE IF file.size = 96 THEN ManyText
    ELSE StartText

\* Listings of a user session: few, so that several runs can be followed.
SessionListings ==
    { <<>>,
      << Dir(<<"src">>), File(<<"server", ".js">>, 120, "ok"),
         File(<<"notes", ".txt">>, 7, "ok") >>,
      << File(<<"app", ".py">>, 30, "missing") >>,
      << File(<<"README", ".md">>, 9, "unreachable") >> }

\* The long listing: BigListingLen entries, two of every six not selectable
\* (a directory, a file off the allow-list), so that more than SampleCap match.
BigUrl(i) == IF i % 4 = 0 THEN "unreachable" ELSE IF i % 5 = 0 THEN "missing" ELSE "ok"

BigEntry(i) ==
    IF i % 6 = 0 THEN Dir(<<"lib", ".js">>)
    ELSE IF i % 6 = 3 THEN File(<<"notes", ".txt">>, i, BigUrl(i))
    ELSE IF i % 6 = 1 THEN File(<<"index", ".js">>, i, BigUrl(i))
    ELSE IF i % 6 = 2 THEN File(<<"app", ".py">>, i, BigUrl(i))
    ELSE IF i % 6 = 4 THEN File(<<"README", ".md">>, i, BigUrl(i))
    ELSE File(<<"Main", ".java">>, i, BigUrl(i))

\* Listings of the sampler scenario: short ones of every shape, and long ones.
SamplerEntries ==
    { Dir(<<"lib", ".js">>), File(<<"notes", ".txt">>, 7, "ok"),
      File(<<"index", ".html">>, 2, "ok") }
    \cup { File(<<"index", ".js">>, 1, u) : u \in {"ok", "missing", "unreachable"} }

SamplerListings ==
    {<<>>} \cup {<<a>> : a \in SamplerEntries}
           \cup {<<a, b>> : a \in SamplerEntries, b \in SamplerEntries}
           \cup {[i \in 1..n |-> BigEntry(i)] : n \in BigListingLen - 2..BigListingLen}
           \cup {[i \in 1..BigListingLen |-> File(<<"index", ".ts">>, i, "ok")]}

ReactManifest ==
    [ dependencies |-> Obj(<< <<"react", "^18.0.0">> >>),
      devDependencies |-> NULL,
      scripts |-> Obj(<< <<"dev", "vite">> >>) ]

SessionEnv ==
    [ runs |-> MaxRuns, urls |-> SessionUrls, listings |-> SessionListings,
      descriptions |-> {JsNull, "A tool"}, manifests |-> {ReactManifest} ]

SamplerEnv ==
    [ runs |-> 1, urls |-> {<<"github.com", "/", "o", "/", "n">>},
      listings |-> SamplerListings,
      descriptions |-> {"A tool"}, manifests |-> {ReactManifest} ]

\* The scenario of the liveness check: two runs, a valid and an invalid URL.
FairEnv ==
    [ runs |-> MaxRuns,
      urls |-> { <<"not", " ", "a", " ", "url">>,
                 <<"https://", "github.com", "/", "o", "/", "n">> },
      listings |-> { << Dir(<<"src">>), File(<<"server", ".js">>, 120, "ok") >>,
                     << File(<<"README", ".md">>, 9, "unreachable") >> },
      descriptions |-> {"A tool"}, manifests |-> {ReactManifest} ]

\* Manifests of the synthesis scenario: every framework of the lookup table,
\* the persistence libraries, scripts of every combination, and entries whose
\* value is the empty string.
Manifest(dependencies, devDependencies, scripts) ==
    [ dependencies |-> dependencies, devDependencies |-> devDependencies,
      scripts |-> scripts ]

SynthManifests ==
    { ReactManifest,
      Manifest(Obj(<< <<"express", "^4.18.0">> >>),
               Obj(<< <<"typescript", "^5.0.0">> >>),
               Obj(<< <<"start", "node server.js">>, <<"dev", "nodemon">> >>)),
      Manifest(Obj(<< <<"express", "^4.18.0">>, <<"vue", "^3.0.0">> >>), NULL, NULL),
      Manifest(Obj(<< <<"express", "^4.18.0">>, <<"mongoose", "^8.0.0">> >>),
               NULL, Obj(<< <<"test", "jest">> >>)),
      Manifest(Obj(<< <<"prisma", "^5.0.0">>, <<"react", "^18.0.0">> >>),
               NULL, Obj(<< <<"start", "vite preview">> >>)),
      Manifest(Obj(<< <<"react", "">> >>), NULL,
               Obj(<< <<"start", "">>, <<"dev", "vite">> >>)),
      Manifest(Obj(<< <<"angular", "^1.8.0">>, <<"tailwindcss", "^3.0.0">>,
                      <<"typescript", "^5.0.0">>, <<"lodash", "^4.0.0">> >>),
               NULL, NULL),
      Manifest(NULL, NULL, Obj(<<>>)) }

SynthListings ==
    { <<>>,
      << File(<<"app", ".py">>, 30, "ok") >>,
      << File(<<"Main", ".java">>, 44, "ok"), File(<<"app", ".py">>, 30, "ok") >>,
      << File(<<"server", ".js">>, 120, "ok") >>,
      << Dir(<<"src">>), File(<<"index", ".ts">>, 158, "ok"),
         File(<<"util", ".js">>, 96, "ok"), File(<<"main", ".jsx">>, 158, "ok"),
         File(<<"README", ".md">>, 9, "ok"), File(<<"Main", ".java">>, 44, "ok") >> }

\* The synthesis scenario: one run, manifests and samples of every shape.
SynthEnv ==
    [ runs |-> 1, urls |-> {<<"github.com", "/", "o", "/", "n">>},
      listings |-> SynthListings,
      descriptions |-> {JsNull, "A tool"}, manifests |-> SynthManifests ]

\* The re-run scenario: the same repository analysed again, its answers
\* possibly changed in between.
RerunEnv ==
    [ runs |-> MaxRuns, urls |-> {<<"github.com", "/", "o", "/", "n">>},
      listings |-> { << File(<<"server", ".js">>, 120, "ok") >>,
                     << File(<<"index", ".ts">>, 158, "ok"),
                        File(<<"util", ".js">>, 96, "ok"),
                        File(<<"main", ".jsx">>, 158, "ok") >> },
      descriptions |-> {"A tool"}, manifests |-> {ReactManifest} ]

\* What the user types and the Repository Data Source answers in the scenario.
Scenario ==
    IF env = "session" THEN SessionEnv
    ELSE IF env = "sampler" THEN SamplerEnv
    ELSE IF env = "synth" THEN SynthEnv
    ELSE IF env = "rerun" THEN RerunEnv
    ELSE FairEnv

\* ---------------------------------------------------------------- actions
\* GitHubAnalyzer as mounted (useState initial values), no run started, in the
\* given scenario.
AnalyzerMounted(scenario) ==
    /\ repoUrl = <<>>
    /\ isAnalyzing = FALSE
    /\ repository = NULL
    /\ documentation = NULL
    /\ toast = NULL
    /\ pc = [r \in Runs |-> "idle"]
    /\ urlMatch = [r \in Runs |-> NULL]
    /\ repoData = [r \in Runs |-> NULL]
    /\ contents = [r \in Runs |-> NULL]
    /\ packageInfo = [r \in Runs |-> NULL]
    /\ packageStatus = [r \in Runs |-> "none"]
    /\ filePromises = [r \in Runs |-> <<>>]
    /\ analyzedFiles = [r \in Runs |-> <<>>]
    /\ webContext = [r \in Runs |-> NULL]
    /\ calls = [r \in Runs |-> NoCalls]
    /\ outcome = [r \in Runs |-> NoOutcome]
    /\ env = scenario
    /\ exported = NULL
    /\ lastSynthesis = NULL

\* The session alone: no extraction pass is followed, no diagram is shown.
Mounted(scenario) ==
    /\ AnalyzerMounted(scenario)
    /\ scan = NULL
    /\ chart = <<>>
    /\ innerHTML = Empty
    /\ renders = <<>>

Init == Mounted("session")

\* <Input onChange={(e) => setRepoUrl(e.target.value)} disabled={isAnalyzing} />
SetRepoUrl ==
    /\ ~isAnalyzing
    /\ \E u \in Scenario.urls : repoUrl' = u
    /\ UNCHANGED << isAnalyzing, repository, documentation, toast, pc, locals,
                    calls, outcome, env, exported, lastSynthesis, detached >>

\* ButtonDisabled without the isAnalyzing disjunct.
ButtonDisabled_EmptyOnly == Trim(repoUrl) = <<>>

\* <Button disabled={isAnalyzing || !repoUrl.trim()} />
ButtonDisabled == isAnalyzing \/ Trim(repoUrl) = <<>>

\* The run a new invocation becomes: the first unused one.
Started == {r \in Runs : pc[r] # "idle"}
NewRun == Cardinality(Started) + 1

\* Fail without the finally block: the flag is left as it is.
Fail_NoFinally(r, message) ==
    /\ toast' = Toast("Analysis Failed", message)
    /\ isAnalyzing' = isAnalyzing
    /\ pc' = [pc EXCEPT ![r] = "done"]
    /\ outcome' = [outcome EXCEPT ![r] = [result |-> "failed", stage |-> pc[r]]]
    /\ repoData' = [repoData EXCEPT ![r] = NULL]
    /\ contents' = [contents EXCEPT ![r] = NULL]
    /\ packageInfo' = [packageInfo EXCEPT ![r] = NULL]
    /\ packageStatus' = [packageStatus EXCEPT ![r] = "none"]
    /\ filePromises' = [filePromises EXCEPT ![r] = <<>>]
    /\ analyzedFiles' = [analyzedFiles EXCEPT ![r] = <<>>]
    /\ webContext' = [webContext EXCEPT ![r] = NULL]
    /\ urlMatch' = [urlMatch EXCEPT ![r] = NULL]
    /\ UNCHANGED << repoUrl, documentation, env, exported, lastSynthesis, detached >>

\* catch (error) { toast(...) } finally { setIsAnalyzing(false) }: the run ends
\* failed at the await it was suspended at; its closure is dropped.
Fail(r, message) ==
    /\ toast' = Toast("Analysis Failed", message)
    /\ isAnalyzing' = FALSE
    /\ pc' = [pc EXCEPT ![r] = "done"]
    /\ outcome' = [outcome EXCEPT ![r] = [result |-> "failed", stage |-> pc[r]]]
    /\ repoData' = [repoData EXCEPT ![r] = NULL]
    /\ contents' = [contents EXCEPT ![r] = NULL]
    /\ packageInfo' = [packageInfo EXCEPT ![r] = NULL]
    /\ packageStatus' = [packageStatus EXCEPT ![r] = "none"]
    /\ filePromises' = [filePromises EXCEPT ![r] = <<>>]
    /\ analyzedFiles' = [analyzedFiles EXCEPT ![r] = <<>>]
    /\ webContext' = [webContext EXCEPT ![r] = NULL]
    /\ urlMatch' = [urlMatch EXCEPT ![r] = NULL]
    /\ UNCHANGED << repoUrl, documentation, env, exported, lastSynthesis, detached >>

\* handleAnalyze up to its first await: validation, setIsAnalyzing(true), and
\* the metadata request.
handleAnalyze ==
    IF Trim(repoUrl) = <<>>
    THEN /\ toast' = Toast("Invalid URL", "Please enter a valid GitHub repository URL")
         /\ UNCHANGED << repoUrl, isAnalyzing, repository, documentation, pc,
                         locals, calls, outcome, env, exported, lastSynthesis, detached >>
    ELSE IF UrlMatch(repoUrl) = NULL
    THEN /\ toast' = Toast("Invalid GitHub URL", "Please enter a valid GitHub repository URL")
         /\ UNCHANGED << repoUrl, isAnalyzing, repository, documentation, pc,
                         locals, calls, outcome, env, exported, lastSynthesis, detached >>
    ELSE /\ NewRun <= Scenario.runs
         /\ isAnalyzing' = TRUE
         /\ urlMatch' = [urlMatch EXCEPT ![NewRun] =
                [ owner |-> UrlMatch(repoUrl).owner,
                  name |-> UrlMatch(repoUrl).name,
                  repoName |-> ReplaceGit(UrlMatch(repoUrl).name) ]]
         /\ calls' = [calls EXCEPT ![NewRun].repo = @ + 1]
         /\ pc' = [pc EXCEPT ![NewRun] = "repoResponse"]
         /\ UNCHANGED << repoUrl, repository, documentation, toast, repoData,
                         contents, packageInfo, packageStatus, filePromises, analyzedFiles,
                         webContext, outcome, env, exported, lastSynthesis, detached >>

\* <Button onClick={handleAnalyze} disabled={...} />
Click == ~ButtonDisabled /\ handleAnalyze

\* What the metadata request can come back with.
RepoResponses(r) ==
    { [kind |-> "reject", message |-> "Failed to fetch"],
      [kind |-> "notOk", message |-> "Repository not found or is private"],
      [kind |-> "badJson", message |-> "Unexpected token"] }
    \cup { [kind |-> "ok",
            data |-> [ name |-> urlMatch[r].repoName, owner |-> urlMatch[r].owner,
                       description |-> d, language |-> "TypeScript",
                       stargazers_count |-> 5, forks_count |-> 1,
                       updated_at |-> <<"2024", "-", "03", "-", "09">> ]]
           : d \in Scenario.descriptions }

\* await fetch(repos/owner/repoName) ... setRepository(...) ... and the
\* listing request.
RepoResponse(r) ==
    /\ pc[r] = "repoResponse"
    /\ \E resp \in RepoResponses(r) :
          IF resp.kind # "ok"
          THEN Fail(r, resp.message) /\ UNCHANGED << repository, calls >>
          ELSE /\ repoData' = [repoData EXCEPT ![r] = resp.data]
               /\ repository' =
                     [ name |-> resp.data.name,
                       owner |-> resp.data.owner,
                       description |-> IF Truthy(resp.data.description)
                                       THEN resp.data.description
                                       ELSE "No description available",
                       stars |-> resp.data.stargazers_count,
                       forks |-> resp.data.forks_count,
                       language |-> IF Truthy(resp.data.language)
                                    THEN resp.data.language ELSE "Unknown",
                       updatedAt |-> toLocaleDateString(resp.data.updated_at) ]
               /\ calls' = [calls EXCEPT ![r].setRepository = @ + 1,
                                         ![r].contents = @ + 1]
               /\ pc' = [pc EXCEPT ![r] = "contentsResponse"]
               /\ UNCHANGED << repoUrl, isAnalyzing, documentation, toast, urlMatch,
                               contents, packageInfo, packageStatus, filePromises, analyzedFiles,
                               webContext, outcome, env, exported, lastSynthesis, detached >>

\* What the listing request can come back with: the code reads the body of
\* any response, so an error body (an object, not an array) is a body too.
ContentsResponses ==
    { [kind |-> "reject", message |-> "Failed to fetch"],
      [kind |-> "badJson", message |-> "Unexpected token"],
      [kind |-> "body", body |-> [isArray |-> FALSE, items |-> <<>>]] }
    \cup { [kind |-> "body", body |-> [isArray |-> TRUE, items |-> l]] : l \in Scenario.listings }

\* await fetch(.../contents); await contentsResponse.json(); and the manifest
\* request.
ContentsResponse(r) ==
    /\ pc[r] = "contentsResponse"
    /\ \E resp \in ContentsResponses :
          IF resp.kind # "body"
          THEN Fail(r, resp.message) /\ UNCHANGED << repository, calls >>
          ELSE /\ contents' = [contents EXCEPT ![r] = resp.body]
               /\ calls' = [calls EXCEPT ![r].package = @ + 1]
               /\ pc' = [pc EXCEPT ![r] = "packageResponse"]
               /\ UNCHANGED << component, urlMatch, repoData, packageInfo, packageStatus,
                               filePromises, analyzedFiles, webContext, outcome, env, exported, lastSynthesis, detached >>

\* What the manifest request can come back with, and what the inner try
\* block makes of it: a rejected fetch, a response that is not ok, and a body
\* that json(), atob() or JSON.parse() throws on all leave packageInfo null.
PackageResponses ==
    { [kind |-> k, packageInfo |-> NULL]
        : k \in {"reject", "notOk", "undecodable"} }
    \cup { [kind |-> "ok", packageInfo |-> m] : m \in Scenario.manifests }

Pending(file) == [file |-> file, state |-> "pending", value |-> NULL]

\* PackageThrows without the inner try/catch: a rejected fetch and an
\* undecodable body reach the outer catch.
PackageThrows_NoTry(r, resp) ==
    ~contents[r].isArray \/ resp.kind \in {"reject", "undecodable"}

\* What reaches the outer catch between the manifest response and await
\* Promise.all: nothing from the manifest (its try block catches it), and the
\* TypeError of contents.filter when the listing body is not an array.
PackageThrows(r, resp) == ~contents[r].isArray

\* await fetch(.../contents/package.json) in its try block, then Step 4 up to
\* await Promise.all, where every selected file's download is started.
PackageResponse(r) ==
    /\ pc[r] = "packageResponse"
    /\ \E resp \in PackageResponses :
          IF PackageThrows(r, resp)
          THEN Fail(r, "contents.filter is not a function")
               /\ UNCHANGED << repository, calls >>
          ELSE LET selected == SelectKeyFiles(contents[r].items)
               IN  /\ packageInfo' = [packageInfo EXCEPT ![r] = resp.packageInfo]
                   /\ packageStatus' = [packageStatus EXCEPT ![r] = resp.kind]
                   /\ filePromises' = [filePromises EXCEPT ![r] =
                          [i \in 1..Len(selected) |-> Pending(selected[i])]]
                   /\ calls' = [calls EXCEPT ![r].files =
                          [i \in 1..Len(selected) |-> 1]]
                   /\ pc' = [pc EXCEPT ![r] = "filesPending"]
                   /\ UNCHANGED << component, urlMatch, repoData, contents,
                                   analyzedFiles, webContext, outcome, env, exported, lastSynthesis, detached >>

\* What one download resolves to: the code reads the text of any response, so
\* an error page is a text too; only a rejected fetch gives null.
FileOutcomes(file) ==
    IF file.download_url = "unreachable"
    THEN { [kind |-> "rejected", value |-> NULL] }
    ELSE { [kind |-> "fulfilled",
            value |-> [ name |-> file.name,
                        content |-> IF file.download_url = "ok" THEN ServedText(file)
                                    ELSE ErrorBody,
                        size |-> file.size ]] }

\* FileResponse with a retry: a rejected download is started again.
FileResponse_Retry(r) ==
    /\ pc[r] = "filesPending"
    /\ \E i \in 1..Len(filePromises[r]) :
          /\ filePromises[r][i].state = "pending"
          /\ \E o \in FileOutcomes(filePromises[r][i].file) :
                IF o.kind = "rejected" /\ calls[r].files[i] < 2
                THEN /\ calls' = [calls EXCEPT ![r].files[i] = @ + 1]
                     /\ UNCHANGED filePromises
                ELSE /\ filePromises' = [filePromises EXCEPT ![r][i] =
                            [file |-> @.file, state |-> o.kind, value |-> o.value]]
                     /\ UNCHANGED calls
    /\ UNCHANGED << component, pc, urlMatch, repoData, contents, packageInfo,
                    packageStatus, analyzedFiles, webContext, outcome, env, exported, lastSynthesis, detached >>

\* One of the concurrent downloads settles.
FileResponse(r) ==
    /\ pc[r] = "filesPending"
    /\ \E i \in 1..Len(filePromises[r]) :
          /\ filePromises[r][i].state = "pending"
          /\ \E o \in FileOutcomes(filePromises[r][i].file) :
                filePromises' = [filePromises EXCEPT ![r][i] =
                    [file |-> @.file, state |-> o.kind, value |-> o.value]]
    /\ UNCHANGED << component, pc, urlMatch, repoData, contents, packageInfo, packageStatus,
                    analyzedFiles, webContext, calls, outcome, env, exported, lastSynthesis, detached >>

\* JoinFiles with Promise.race in place of Promise.all: the run goes on as soon
\* as one download has settled, and the sample is what has settled by then.
JoinFiles_Race(r) ==
    /\ pc[r] = "filesPending"
    /\ \/ filePromises[r] = <<>>
       \/ \E i \in 1..Len(filePromises[r]) : filePromises[r][i].state # "pending"
    /\ analyzedFiles' = [analyzedFiles EXCEPT ![r] = JoinResults(filePromises[r])]
    /\ calls' = [calls EXCEPT ![r].search = @ + 1]
    /\ pc' = [pc EXCEPT ![r] = "searchResponse"]
    /\ UNCHANGED << component, urlMatch, repoData, contents, packageInfo, packageStatus,
                    filePromises, webContext, outcome, env, exported, lastSynthesis, detached >>

\* await Promise.all(filePromises) resumes; the web-search request.
JoinFiles(r) ==
    /\ pc[r] = "filesPending"
    /\ \A i \in 1..Len(filePromises[r]) : filePromises[r][i].state # "pending"
    /\ analyzedFiles' = [analyzedFiles EXCEPT ![r] = JoinResults(filePromises[r])]
    /\ calls' = [calls EXCEPT ![r].search = @ + 1]
    /\ pc' = [pc EXCEPT ![r] = "searchResponse"]
    /\ UNCHANGED << component, urlMatch, repoData, contents, packageInfo, packageStatus,
                    filePromises, webContext, outcome, env, exported, lastSynthesis, detached >>

\* What the web-search request can come back with, in its try block.
SearchResponses ==
    { [kind |-> k, webContext |-> NULL] : k \in {"reject", "notOk", "badJson"} }
    \cup { [kind |-> "ok", webContext |-> [results |-> "found"]] }

\* SetDocumentation as an incremental update: a stored bundle keeps its
\* installation and usage sections.
SetDocumentation_Merge(r, bundle) ==
    /\ documentation' =
           IF documentation = NULL THEN bundle
           ELSE [bundle EXCEPT !.installation = documentation.installation,
                               !.usage = documentation.usage]
    /\ calls' = [calls EXCEPT ![r].setDocumentation = @ + 1]

\* setDocumentation({...}): the whole bundle, in one call.
SetDocumentation(r, bundle) ==
    /\ documentation' = bundle
    /\ calls' = [calls EXCEPT ![r].setDocumentation = @ + 1]

\* await fetch('/api/search') in its try block, then Step 6, the toast and
\* finally { setIsAnalyzing(false) }.
SearchResponse(r) ==
    /\ pc[r] = "searchResponse"
    /\ \E resp \in SearchResponses :
          /\ SetDocumentation(r, Synthesize(repoData[r], contents[r].items,
                                            analyzedFiles[r], packageInfo[r]))
          /\ toast' = Toast("Analysis Complete!",
                            "Comprehensive documentation generated from code analysis")
          /\ isAnalyzing' = FALSE
          /\ pc' = [pc EXCEPT ![r] = "done"]
          /\ outcome' = [outcome EXCEPT ![r] = [result |-> "succeeded", stage |-> pc[r]]]
          /\ repoData' = [repoData EXCEPT ![r] = NULL]
          /\ contents' = [contents EXCEPT ![r] = NULL]
          /\ packageInfo' = [packageInfo EXCEPT ![r] = NULL]
          /\ packageStatus' = [packageStatus EXCEPT ![r] = "none"]
          /\ filePromises' = [filePromises EXCEPT ![r] = <<>>]
          /\ analyzedFiles' = [analyzedFiles EXCEPT ![r] = <<>>]
          /\ webContext' = [webContext EXCEPT ![r] = NULL]
          /\ urlMatch' = [urlMatch EXCEPT ![r] = NULL]
          /\ lastSynthesis' =
                [ repoData |-> repoData[r], contents |-> contents[r].items,
                  files |-> analyzedFiles[r], packageInfo |-> packageInfo[r],
                  scans |-> Invocations(analyzedFiles[r]) ]
          /\ UNCHANGED << repoUrl, repository, env, exported, detached >>

Next ==
    \/ SetRepoUrl
    \/ Click
    \/ \E r \in Runs :
          \/ RepoResponse(r)
          \/ ContentsResponse(r)
          \/ PackageResponse(r)
          \/ FileResponse(r)
          \/ JoinFiles(r)
          \/ SearchResponse(r)

Spec == Init /\ [][Next]_vars

\* A step of a suspended run: one of its requests returns or fails, or its
\* downloads are joined.
Resume(r) ==
    \/ RepoResponse(r)
    \/ ContentsResponse(r)
    \/ PackageResponse(r)
    \/ FileResponse(r)
    \/ JoinFiles(r)
    \/ SearchResponse(r)

\* Every request returns or fails: each suspended run is eventually resumed.
Fairness == \A r \in Runs : WF_vars(Resume(r))

InitFair == Mounted("fair")

FairSpec == InitFair /\ [][Next]_vars /\ Fairness

\* The sampler scenario: one run, listings of every shape.
InitSampler == Mounted("sampler")

SpecSampler == InitSampler /\ [][Next]_vars

\* ------------------------------------------------------------------ export
\* array.join(sep), and the template literal `${a}\n\n${b}...`.
RECURSIVE Join(_, _)
Join(parts, sep) ==
    IF Len(parts) = 0 THEN <<>>
    ELSE IF Len(parts) = 1 THEN <<parts[1]>>
    ELSE <<parts[1], sep>> \o Join(Tail(parts), sep)

\* The template literal of handleDownload and of the Copy All button.
FullDoc ==
    Join(<< documentation.overview, documentation.structure, documentation.modules,
            documentation.installation, documentation.usage >>, "\n\n")

\* handleCopy(content): navigator.clipboard.writeText(content) and a toast.
handleCopy(content) ==
    /\ exported' = [to |-> "clipboard", content |-> content]
    /\ toast' = Toast("Copied!", "Content copied to clipboard")
    /\ UNCHANGED << repoUrl, isAnalyzing, repository, documentation, pc, locals,
                    calls, outcome, env, lastSynthesis, detached >>

\* The Copy All button, rendered when a bundle is stored.
CopyAll == documentation # NULL /\ handleCopy(FullDoc)

\* The Copy button of one of the six tabs.
CopySection ==
    /\ documentation # NULL
    /\ \E section \in DOMAIN documentation : handleCopy(<<documentation[section]>>)

\* The Download button, rendered when a bundle is stored.
handleDownload ==
    /\ documentation # NULL
    /\ IF repository = NULL
       THEN UNCHANGED vars
       ELSE /\ exported' = [to |-> "file", name |-> repository.name,
                            content |-> FullDoc]
            /\ toast' = Toast("Downloaded!", "Documentation saved as Markdown file")
            /\ UNCHANGED << repoUrl, isAnalyzing, repository, documentation, pc,
                            locals, calls, outcome, env, lastSynthesis, detached >>

\* The component with its export buttons.
NextExport == Next \/ CopyAll \/ CopySection \/ handleDownload

\* The synthesis scenario, with the export buttons.
InitSynth == Mounted("synth")

SpecSynth == InitSynth /\ [][NextExport]_vars

\* The re-run scenario.
InitRerun == Mounted("rerun")

SpecRerun == InitRerun /\ [][Next]_vars

\* ------------------------------------------- an extraction pass, by iteration
\* Number of fragments a scanned text is made of.
MaxChunks == 3

\* The concatenation of a sequence of token sequences.
RECURSIVE Concat(_)
Concat(chunks) ==
    IF chunks = <<>> THEN <<>> ELSE Head(chunks) \o Concat(Tail(chunks))

\* The texts made of at most n fragments.
Texts(fragments, n) ==
    UNION { { Concat(c) : c \in [1..k -> fragments] } : k \in 0..n }

\* What the texts handed to each pass are made of: the three declaration
\* forms and import lines, and pieces that match nothing by themselves.
FunctionFragments ==
    { << "function", " ", "start", "(", ")" >>, << "const", " ", "x", " ", "=" >>,
      << "App", ":", " ", "function", "(" >>, << "x", " " >> }
ImportFragments ==
    { << "import", " ", "App", " ", "from", " ", "'./App'" >>,
      << "import", " ", "x", " " >>, << " ", "from", " ", "'react'" >>,
      << "\n" >> }

\* regex.exec(content) of a global regex: the first match at or after
\* lastIndex, or NULL.
RegexExec(fn, content, lastIndex) ==
    IF fn = "extractFunctions"
    THEN LET hits == {i \in lastIndex..Len(content) : FunctionMatchAt(content, i) # NULL}
         IN  IF hits = {} THEN NULL ELSE FunctionMatchAt(content, Min(hits))
    ELSE LET hits == {i \in lastIndex..Len(content) : ImportMatchAt(content, i) # NULL}
         IN  IF hits = {} THEN NULL ELSE ImportMatchAt(content, Min(hits))

\* The call: the regex literal is created (lastIndex at the start of the
\* text), matches = [].
Called(fn, content) ==
    [ fn |-> fn, content |-> content, lastIndex |-> 1, matches |-> <<>>,
      returning |-> FALSE, returned |-> <<>> ]

\* One turn of while ((match = regex.exec(content)) !== null): the capture is
\* pushed and lastIndex is left behind the match. A pass cannot push more
\* often than the store holds entries; the guard stands for that limit.
LoopIteration ==
    /\ scan # NULL /\ ~scan.returning
    /\ Len(scan.matches) <= Len(scan.content)
    /\ LET match == RegexExec(scan.fn, scan.content, scan.lastIndex)
       IN  /\ match # NULL
           /\ scan' = [scan EXCEPT !.matches = Append(@, match.capture),
                                   !.lastIndex = match.last + 1]
    /\ UNCHANGED << component, pc, locals, calls, outcome, env, exported,
                    lastSynthesis, chart, innerHTML, renders >>

\* exec returns null: lastIndex is reset, the loop is left and the function
\* returns matches.filter(Boolean) (extractFunctions) or matches
\* (extractImports).
LoopExit ==
    /\ scan # NULL /\ ~scan.returning
    /\ RegexExec(scan.fn, scan.content, scan.lastIndex) = NULL
    /\ scan' = [scan EXCEPT !.lastIndex = 1, !.returning = TRUE,
                            !.returned = IF scan.fn = "extractFunctions"
                                         THEN SelectSeq(scan.matches, Truthy)
                                         ELSE scan.matches]
    /\ UNCHANGED << component, pc, locals, calls, outcome, env, exported,
                    lastSynthesis, chart, innerHTML, renders >>

\* A pass of either function on any text of its alphabet.
InitScan ==
    /\ AnalyzerMounted("scan")
    /\ scan \in { Called("extractFunctions", t) : t \in Texts(FunctionFragments, MaxChunks) }
           \cup { Called("extractImports", t) : t \in Texts(ImportFragments, MaxChunks) }
    /\ chart = <<>>
    /\ innerHTML = Empty
    /\ renders = <<>>

NextScan == LoopIteration \/ LoopExit

\* The loop is synchronous code: it runs until it is left.
SpecScan == InitScan /\ [][NextScan]_vars /\ WF_vars(NextScan)

\* ------------------------------------------------------- MermaidDiagram.tsx
\* Number of mermaid.render promises that can be unsettled at a time.
MaxPending == 3

\* The chart props the component is given: the diagram descriptions
\* generateMermaidDiagram returns.
Charts == { FrontendText(d) : d \in BOOLEAN } \cup { GenericText(d) : d \in BOOLEAN }

\* What mermaid.render resolves to for a chart, and the markup of the catch
\* block.
Svg(c) == [markup |-> "svg", chart |-> c]
ErrorPlaceholder == [markup |-> "Error rendering diagram", chart |-> <<>>]

\* A chart in a string context: "" is falsy.
ChartGiven(c) == c # <<>>

\* The component is rendered with a chart prop other than the one it has
\* (the first is the mount): the effect on [chart, id] runs renderDiagram up
\* to its await, which empties the container and calls mermaid.render.
SetChart ==
    /\ Len(renders) < MaxPending
    /\ \E c \in Charts :
          /\ c # chart
          /\ chart' = c
          /\ IF ChartGiven(c)
             THEN /\ innerHTML' = Empty
                  /\ renders' = Append(renders, [chart |-> c])
             ELSE UNCHANGED << innerHTML, renders >>
    /\ UNCHANGED << component, pc, locals, calls, outcome, env, exported,
                    lastSynthesis, scan >>

\* The sequence without its i-th element.
Without(s, i) == SubSeq(s, 1, i - 1) \o SubSeq(s, i + 1, Len(s))

\* await mermaid.render(uniqueId, chart) resolves for one of the unsettled
\* calls, in whatever order the library settles them: the closure of that
\* call writes its svg into the container.
RenderResolves ==
    /\ \E i \in 1..Len(renders) :
          /\ innerHTML' = Svg(renders[i].chart)
          /\ renders' = Without(renders, i)
    /\ UNCHANGED << component, pc, locals, calls, outcome, env, exported,
                    lastSynthesis, scan, chart >>

\* The call rejects: the catch block of that closure writes the placeholder.
RenderRejects ==
    /\ \E i \in 1..Len(renders) :
          /\ innerHTML' = ErrorPlaceholder
          /\ renders' = Without(renders, i)
    /\ UNCHANGED << component, pc, locals, calls, outcome, env, exported,
                    lastSynthesis, scan, chart >>

\* The component alone, before it is given a chart.
InitDiagram ==
    /\ AnalyzerMounted("diagram")
    /\ scan = NULL
    /\ chart = <<>>
    /\ innerHTML = Empty
    /\ renders = <<>>

NextDiagram == SetChart \/ RenderResolves \/ RenderRejects

SpecDiagram == InitDiagram /\ [][NextDiagram]_vars

\* ----------------------------------------------------------------- claims
InFlight == {r \in Runs : pc[r] \notin {"idle", "done"}}

\* C1: a run ends in the failed outcome only through a failure of the URL
\* Resolver or of the metadata fetch; a failure in any later stage (listing,
\* manifest, download, synthesis) never does.
C1_OnlyMetadataFailureAborts ==
    \A r \in Runs : outcome[r].result = "failed" => outcome[r].stage = "repoResponse"

\* The inputs C2 names: empty, whitespace-only, and two that do not hold the
\* host-qualified owner/name pattern ("not a url", "github.com/o").
InvalidInputs ==
    { <<>>, <<" ">>, <<"not", " ", "a", " ", "url">>, <<"github.com", "/", "o">> }

InvalidUrlToasts == {"Invalid URL", "Invalid GitHub URL"}

\* C2: for every input that is empty, whitespace-only or without the pattern,
\* the resolver rejects it, and an invocation of handleAnalyze on it only shows
\* the InvalidUrl toast: no request is issued, and the in-progress flag, the
\* repository record and the bundle stay as they were.
C2_InvalidUrlChangesNothing ==
    /\ \A u \in InvalidInputs : Trim(u) = <<>> \/ UrlMatch(u) = NULL
    /\ [][ (repoUrl \in InvalidInputs /\ repoUrl' = repoUrl /\ ~isAnalyzing)
             => /\ UNCHANGED << isAnalyzing, repository, documentation, pc, calls >>
                /\ toast' # NULL /\ toast'.title \in InvalidUrlToasts ]_vars

\* C2 witness: "not a url" was submitted while a bundle was stored, and the
\* bundle, the record and the flag are still there.
C2_Witness ==
    /\ repoUrl = <<"not", " ", "a", " ", "url">>
    /\ toast # NULL /\ toast.title = "Invalid GitHub URL"
    /\ documentation # NULL /\ repository # NULL /\ ~isAnalyzing

\* C3: for a run on <host>/o/n, the URL <host>/o/n.git resolves to the same
\* (owner, name) pair, and the name is n with only a trailing .git removed.
StripTrailingGit(name) ==
    IF EndsWith(name, ".git") THEN SubSeq(name, 1, Len(name) - 1) ELSE name

C3_GitSuffixIgnored ==
    \A r \in InFlight :
        /\ urlMatch[r].repoName = StripTrailingGit(urlMatch[r].name)
        /\ \A u \in UrlInputs :
              ( /\ UrlMatch(u) # NULL
                /\ UrlMatch(u).owner = urlMatch[r].owner
                /\ UrlMatch(u).name = urlMatch[r].name \o <<".git">> )
              => ReplaceGit(UrlMatch(u).name) = urlMatch[r].repoName

\* The allow-listed files of a listing, before the cap.
KeyFilesOf(r) == SelectSeq(contents[r].items, IsKeyFile)

\* C4: whatever the listing and the download outcomes, a run starts at most
\* SampleCap downloads and its sample has at most SampleCap entries.
C4_SampleAtMostTen ==
    \A r \in Runs :
        /\ Len(filePromises[r]) <= SampleCap
        /\ Len(calls[r].files) <= SampleCap
        /\ \A i \in 1..Len(calls[r].files) : calls[r].files[i] <= 1
        /\ Len(analyzedFiles[r]) <= SampleCap

\* C4 witness: a listing with more than SampleCap allow-listed files was
\* sampled and joined.
C4_Witness ==
    \E r \in Runs :
        /\ pc[r] = "searchResponse"
        /\ Len(KeyFilesOf(r)) > SampleCap
        /\ Len(filePromises[r]) = SampleCap
        /\ Len(analyzedFiles[r]) > 0

\* The sample C5 describes: the selected entries whose download succeeded.
Downloaded(file) == file.download_url = "ok"
Sampled(file) == [name |-> file.name, size |-> file.size]

\* C5: the joined sample is the first SampleCap allow-listed files of the
\* listing, in listing order, without those whose download failed (a rejected
\* fetch or an error response) and with all those whose download succeeded.
C5_SampleIsSuccessfulDownloads ==
    \A r \in Runs :
        pc[r] = "searchResponse" =>
            [i \in 1..Len(analyzedFiles[r]) |->
                [name |-> analyzedFiles[r][i].name, size |-> analyzedFiles[r][i].size]]
            = LET kept == SelectSeq(Slice(KeyFilesOf(r), SampleCap), Downloaded)
              IN  [i \in 1..Len(kept) |-> Sampled(kept[i])]

\* C6: whatever the manifest request comes back with, the run goes on to the
\* sampling stage (the only error this step can raise is the sampler's own
\* TypeError on a listing that is not a list); packageInfo is null unless the
\* manifest was fetched and decoded; and a run that reaches synthesis without
\* a manifest succeeds with the no-manifest text.
C6_ManifestFailureSwallowed ==
    /\ [](\A r \in Runs :
            packageStatus[r] \notin {"none", "ok"} =>
                /\ packageInfo[r] = NULL
                /\ pc[r] \in {"filesPending", "searchResponse"}
                /\ outcome[r].result = "none")
    /\ [][ \A r \in Runs :
             /\ (pc[r] = "packageResponse" /\ pc'[r] # "packageResponse")
                  => \/ /\ pc'[r] = "filesPending"
                        /\ toast' = toast
                        /\ packageStatus'[r] # "none"
                        /\ (packageStatus'[r] # "ok" => packageInfo'[r] = NULL)
                     \/ /\ ~contents[r].isArray
                        /\ toast'.description = "contents.filter is not a function"
             /\ (pc[r] = "searchResponse" /\ pc'[r] # "searchResponse"
                    /\ packageStatus[r] # "ok")
                  => /\ outcome'[r].result = "succeeded"
                     /\ documentation'.modules.analysis = [none |-> "No package.json found"]
         ]_vars

\* C6 witness: the manifest could not be decoded, and the run has sampled a
\* file and is about to synthesize.
C6_Witness ==
    \E r \in Runs :
        /\ pc[r] = "searchResponse"
        /\ packageStatus[r] = "undecodable"
        /\ packageInfo[r] = NULL
        /\ Len(analyzedFiles[r]) > 0

\* C7: the in-progress flag is set only by an invocation whose URL passed
\* validation, it is set exactly while a run is in flight, it is cleared by the
\* step that ends the run (succeeded or failed), and, every request returning
\* or failing, a set flag is eventually cleared.
C7_FlagLifecycle ==
    /\ [](isAnalyzing <=> InFlight # {})
    /\ [][ (~isAnalyzing /\ isAnalyzing')
             => /\ Trim(repoUrl) # <<>> /\ UrlMatch(repoUrl) # NULL
                /\ \E r \in Runs : pc[r] = "idle" /\ pc'[r] = "repoResponse" ]_vars
    /\ [][ (isAnalyzing /\ ~isAnalyzing')
             => \E r \in Runs :
                   /\ r \in InFlight /\ pc'[r] = "done"
                   /\ outcome'[r].result \in {"succeeded", "failed"} ]_vars
    /\ (isAnalyzing ~> ~isAnalyzing)

\* C7 witness: one run has failed, another has succeeded, and the flag is clear.
C7_Witness ==
    /\ ~isAnalyzing
    /\ \E r \in Runs : outcome[r].result = "failed"
    /\ \E r \in Runs : outcome[r].result = "succeeded"

\* C8 as stated: while a run is in flight, a second analysis can be invoked
\* (the invocation is enabled whenever a valid URL is in the field and a run is
\* left to start).
C8_SecondRunWhileInFlight ==
    ( /\ InFlight # {}
      /\ Trim(repoUrl) # <<>>
      /\ UrlMatch(repoUrl) # NULL
      /\ NewRun <= Scenario.runs )
    => ENABLED Click

\* C8 as amended: no analysis can be invoked while one is in flight, so at most
\* one run is in flight, it is the one started last, and the record and the
\* bundle are only ever written by it.
C8_RunsDoNotOverlap ==
    /\ [](Cardinality(InFlight) <= 1)
    /\ [](\A r \in InFlight : r = Cardinality(Started))
    /\ [](InFlight # {} => ~ENABLED Click)
    /\ [][ (repository' # repository \/ documentation' # documentation)
             => \E r \in InFlight : r = Cardinality(Started) /\ pc'[r] # pc[r] ]_vars

\* C8 witness: a later run is in flight, with a valid URL in the field, while
\* the bundle of an earlier run is stored.
C8_Witness ==
    /\ \E r1, r2 \in Runs : pc[r1] = "done" /\ r2 \in InFlight
    /\ UrlMatch(repoUrl) # NULL
    /\ documentation # NULL

\* C9: the stored bundle changes only in the step in which a run succeeds, to
\* the six sections synthesized from that run's own metadata, listing, sample
\* and manifest, written by that run's single setDocumentation call; so the
\* stored sections always describe one repository and one sample.
C9_BundleReplacedWholesale ==
    /\ [](documentation # NULL =>
            /\ DOMAIN documentation = {"overview", "structure", "modules",
                                       "mermaidDiagram", "installation", "usage"}
            /\ documentation.installation.cd = documentation.overview.title
            /\ documentation.installation.clone[1] = documentation.overview.owner
            /\ documentation.usage.configuration
                 = (documentation.installation.prerequisites = "Node.js")
            /\ documentation.usage.example = "react"
                 <=> documentation.mermaidDiagram.topology = "frontend")
    /\ [](\A r \in Runs :
            /\ calls[r].setDocumentation <= 1
            /\ outcome[r].result # "succeeded" => calls[r].setDocumentation = 0)
    /\ [][ documentation' # documentation
             => \E r \in Runs :
                   /\ outcome[r].result = "none" /\ outcome'[r].result = "succeeded"
                   /\ documentation' = Synthesize(repoData[r], contents[r].items,
                                                  analyzedFiles[r], packageInfo[r]) ]_vars

\* C9 witness: a run succeeded, a later run for another repository failed
\* after its metadata arrived, and the earlier bundle is still stored.
C9_Witness ==
    /\ documentation # NULL
    /\ \E r1, r2 \in Runs :
          /\ r1 < r2
          /\ outcome[r1].result = "succeeded"
          /\ outcome[r2].result = "failed" /\ outcome[r2].stage = "contentsResponse"

\* C10: a run issues each of its requests at most once: the metadata, the
\* listing, the manifest, the web search, and one download per selected file.
C10_NoRetries ==
    \A r \in Runs :
        /\ calls[r].repo <= 1 /\ calls[r].contents <= 1
        /\ calls[r].package <= 1 /\ calls[r].search <= 1
        /\ \A i \in 1..Len(calls[r].files) : calls[r].files[i] = 1
        /\ r \in InFlight /\ pc[r] \in {"filesPending", "searchResponse"}
             => Len(calls[r].files) = Len(filePromises[r])
        /\ calls[r].contents <= calls[r].repo
        /\ calls[r].package <= calls[r].contents
        /\ calls[r].search <= calls[r].package

\* C10 witness: a run whose download was rejected has issued every request
\* once and waits for the web search.
C10_Witness ==
    \E r \in Runs :
        /\ pc[r] = "searchResponse"
        /\ calls[r].repo = 1 /\ calls[r].contents = 1
        /\ calls[r].package = 1 /\ calls[r].search = 1
        /\ \E i \in 1..Len(filePromises[r]) : filePromises[r][i].state = "rejected"

\* A name is in the manifest's dependency-name set / script-name set.
HasDependency(manifest, k) == manifest # NULL /\ Has(manifest.dependencies, k)
HasScript(manifest, k) == manifest # NULL /\ Has(manifest.scripts, k)

\* A sampled file with the extension.
SampledWithExtension(files, ext) == \E i \in 1..Len(files) : EndsWith(files[i].name, ext)

\* C11: the project type of the stored bundle is resolved by the fixed
\* priority: a react dependency, else a vue dependency, else an express
\* dependency, else a sampled .py file, else a sampled .java file, else the
\* general label.
C11_ProjectTypeByPriority ==
    documentation # NULL =>
        LET m == lastSynthesis.packageInfo
            files == lastSynthesis.files
        IN  documentation.overview.projectType =
              IF HasDependency(m, "react") THEN "React Web Application"
              ELSE IF HasDependency(m, "vue") THEN "Vue.js Application"
              ELSE IF HasDependency(m, "express") THEN "Node.js/Express Server"
              ELSE IF SampledWithExtension(files, ".py") THEN "Python Application"
              ELSE IF SampledWithExtension(files, ".java") THEN "Java Application"
              ELSE "General Software Project"

\* C12: the technology list of the stored bundle holds a framework label
\* exactly when the matching name is in the manifest's dependency-name set,
\* and with react in that set the diagram is the frontend topology.
C12_TechListByDependencyNames ==
    documentation # NULL =>
        LET m == lastSynthesis.packageInfo
        IN  /\ \A i \in 1..Len(TechTable) :
                  SeqIncludes(documentation.overview.techStack, TechTable[i][2])
                    <=> HasDependency(m, TechTable[i][1])
            /\ HasDependency(m, "react") =>
                  /\ SeqIncludes(documentation.overview.techStack, "React")
                  /\ documentation.mermaidDiagram.topology = "frontend"

\* C13: the diagram of the stored bundle is the frontend topology exactly
\* when react is a dependency of the manifest, the generic one otherwise, and
\* has the data-layer branch exactly when mongoose or prisma is a dependency.
C13_DiagramByManifest ==
    documentation # NULL =>
        LET m == lastSynthesis.packageInfo
        IN  /\ documentation.mermaidDiagram.topology =
                  IF HasDependency(m, "react") THEN "frontend" ELSE "generic"
            /\ documentation.mermaidDiagram.dataLayer
                  <=> (HasDependency(m, "mongoose") \/ HasDependency(m, "prisma"))

\* C14: the usage snippet of the stored bundle is the React one exactly when
\* the technology list of the same bundle holds React.
C14_SnippetFollowsTechList ==
    documentation # NULL =>
        (documentation.usage.example = "react"
            <=> SeqIncludes(documentation.overview.techStack, "React"))

\* C15: the installation section of the stored bundle always has the clone,
\* cd, install and start lines; the install command is npm install; the start
\* command is npm start with a start script, else npm run dev with a dev
\* script, else npm start.
C15_InstallationCommands ==
    documentation # NULL =>
        LET m == lastSynthesis.packageInfo
            inst == documentation.installation
        IN  /\ inst.clone = <<lastSynthesis.repoData.owner, lastSynthesis.repoData.name>>
            /\ inst.cd = lastSynthesis.repoData.name
            /\ inst.installCmd = "npm install"
            /\ inst.startCmd =
                  IF HasScript(m, "start") THEN "npm start"
                  ELSE IF HasScript(m, "dev") THEN "npm run dev"
                  ELSE "npm start"

\* C16: a document exported by Download or Copy All is the six sections of the
\* stored bundle, in order, with a blank line between them; no section is
\* missing.
C16_ExportHasSixSections ==
    (exported # NULL /\ Len(exported.content) > 1) =>
        /\ exported.content =
              Join(<< documentation.overview, documentation.structure,
                      documentation.modules, documentation.mermaidDiagram,
                      documentation.installation, documentation.usage >>, "\n\n")
        /\ \A section \in DOMAIN documentation :
              SeqIncludes(exported.content, documentation[section])

\* C17: with no description in the metadata, the repository record and the
\* overview of the bundle both show the placeholder.
C17_DescriptionPlaceholder ==
    /\ \A r \in Runs :
          (repoData[r] # NULL /\ ~Truthy(repoData[r].description))
             => repository.description = "No description available"
    /\ (documentation # NULL /\ ~Truthy(lastSynthesis.repoData.description))
          => documentation.overview.description = "No description available"

\* The script-language extensions C18 names.
ScriptExtensions == {".js", ".ts", ".jsx", ".tsx"}
IsScript(f) == \E ext \in ScriptExtensions : EndsWith(f.name, ext)

\* C18 as stated: the modules section of the stored bundle has one block per sampled
\* script file, in sample order, and none for another file; each block has
\* the file's size, the number of extracted identifiers and the first five,
\* the number of extracted imports and the first five; the section ends with
\* the two dependency counts of the manifest, or the statement that there is
\* none; server.js holding function start(){} has exactly the identifier start.
C18_ModuleBlocks ==
    documentation # NULL =>
        LET scripts == SelectSeq(lastSynthesis.files, IsScript)
            blocks == documentation.modules.blocks
            m == lastSynthesis.packageInfo
        IN  /\ Len(blocks) = Len(scripts)
            /\ \A i \in 1..Len(blocks) :
                  /\ blocks[i].name = scripts[i].name
                  /\ blocks[i].size = scripts[i].size
                  /\ blocks[i].functions = Len(extractFunctions(scripts[i].content))
                  /\ blocks[i].keyFunctions
                       = Slice(extractFunctions(scripts[i].content), 5)
                  /\ blocks[i].dependencies
                       = Slice(extractImports(scripts[i].content), 5)
                  /\ (scripts[i].name = <<"server", ".js">> /\ scripts[i].content = StartText)
                       => /\ blocks[i].functions = 1
                          /\ blocks[i].keyFunctions = <<"start">>
                  /\ "imports" \in DOMAIN blocks[i]
                  /\ blocks[i].imports = Len(extractImports(scripts[i].content))
            /\ documentation.modules.analysis =
                  IF m # NULL
                  THEN [production  |-> Len(Keys(m.dependencies)),
                        development |-> Len(Keys(m.devDependencies))]
                  ELSE [none |-> "No package.json found"]

\* C18 as amended: as above, but a block carries no number of imports: the
\* imports appear only as the list of the first five.
C18_ModuleBlocksNoImportCount ==
    documentation # NULL =>
        LET scripts == SelectSeq(lastSynthesis.files, IsScript)
            blocks == documentation.modules.blocks
            m == lastSynthesis.packageInfo
        IN  /\ Len(blocks) = Len(scripts)
            /\ \A i \in 1..Len(blocks) :
                  /\ DOMAIN blocks[i] =
                        {"name", "size", "functions", "keyFunctions", "dependencies"}
                  /\ blocks[i].name = scripts[i].name
                  /\ blocks[i].size = scripts[i].size
                  /\ blocks[i].functions = Len(extractFunctions(scripts[i].content))
                  /\ blocks[i].keyFunctions
                       = Slice(extractFunctions(scripts[i].content), 5)
                  /\ blocks[i].dependencies
                       = Slice(extractImports(scripts[i].content), 5)
                  /\ (scripts[i].name = <<"server", ".js">> /\ scripts[i].content = StartText)
                       => /\ blocks[i].functions = 1
                          /\ blocks[i].keyFunctions = <<"start">>
            /\ documentation.modules.analysis =
                  IF m # NULL
                  THEN [production  |-> Len(Keys(m.dependencies)),
                        development |-> Len(Keys(m.devDependencies))]
                  ELSE [none |-> "No package.json found"]

\* C18 witness: a bundle synthesized from a sample of script and other files,
\* with a block of six identifiers of which five are shown and a block with
\* imports, and the dependency counts of a manifest.
C18_Witness ==
    /\ documentation # NULL
    /\ Len(lastSynthesis.files) > Len(documentation.modules.blocks)
    /\ \E i \in 1..Len(documentation.modules.blocks) :
          /\ documentation.modules.blocks[i].functions = 6
          /\ Len(documentation.modules.blocks[i].keyFunctions) = 5
    /\ \E i \in 1..Len(documentation.modules.blocks) :
          Len(documentation.modules.blocks[i].dependencies) = 2
    /\ "production" \in DOMAIN documentation.modules.analysis

\* Two logged extractor calls of the same function on the same text.
SameCall(a, b) == a.fn = b.fn /\ a.text = b.text

\* The step in which run r synthesizes.
Synthesizes(r) == pc[r] = "searchResponse" /\ pc'[r] = "done"

InputsOf(r) ==
    [ repoData |-> repoData[r], contents |-> contents[r].items,
      files |-> analyzedFiles[r], packageInfo |-> packageInfo[r] ]

\* The four inputs of the last synthesis.
LastInputs ==
    [ repoData |-> lastSynthesis.repoData, contents |-> lastSynthesis.contents,
      files |-> lastSynthesis.files, packageInfo |-> lastSynthesis.packageInfo ]

StageRank(p) ==
    CASE p = "idle" -> 0
      [] p = "repoResponse" -> 1
      [] p = "contentsResponse" -> 2
      [] p = "packageResponse" -> 3
      [] p = "filesPending" -> 4
      [] p = "searchResponse" -> 5
      [] p = "done" -> 6

\* Every download of run r has settled (or none was started).
AllSettled(r) ==
    \A i \in 1..Len(filePromises[r]) : filePromises[r][i].state # "pending"

\* What the stage order has in common in C21 as stated and as amended: a run
\* moves from one await to the next or ends, an ended run is never resumed,
\* the listing request is issued in the step in which the metadata fetch
\* succeeds, the web search after every download has settled, and the bundle
\* is stored last.
LinearRun(r) ==
    /\ pc'[r] # pc[r] =>
          \/ StageRank(pc'[r]) = StageRank(pc[r]) + 1
          \/ pc'[r] = "done" /\ pc[r] # "idle"
    /\ calls'[r].repo # calls[r].repo => pc[r] = "idle" /\ urlMatch'[r] # NULL
    /\ calls'[r].contents # calls[r].contents =>
          pc[r] = "repoResponse" /\ repoData'[r] # NULL /\ repository' # NULL
    /\ calls'[r].search # calls[r].search =>
          pc[r] = "filesPending" /\ AllSettled(r)
    /\ calls'[r].setDocumentation # calls[r].setDocumentation =>
          pc[r] = "searchResponse" /\ calls[r].search = 1

RECURSIVE Lines(_)
Lines(text) ==
    LET ends == {i \in 1..Len(text) : text[i] = "\n"}
    IN  IF ends = {} THEN << text >>
        ELSE << SubSeq(text, 1, Min(ends) - 1) >>
             \o Lines(SubSeq(text, Min(ends) + 1, Len(text)))

\* The node/edge notation: what is syntax, what is a node identifier, what is
\* a blank line, and the two forms of a node on an edge line.
SyntaxTokens == {"[", "]", "-->", " ", "\n", Indent, "graph", "TD"}
NodeIds == {"A", "B", "C", "D", "E", "F", "G", "H", "I", "J", "K"}
IsBlank(line) == \A i \in 1..Len(line) : line[i] \in {" ", Indent}
IsNodeRef(x) ==
    \/ Len(x) = 1 /\ x[1] \in NodeIds
    \/ /\ Len(x) = 4 /\ x[1] \in NodeIds /\ x[2] = "[" /\ x[4] = "]"
       /\ x[3] \notin SyntaxTokens \cup NodeIds

\* The line without its indentation.
Unindent(line) ==
    LET solid == {i \in 1..Len(line) : line[i] # Indent}
    IN  IF solid = {} THEN <<>> ELSE SubSeq(line, Min(solid), Len(line))

\* One edge `A --> B`: exactly one arrow, a blank on either side of it, a node
\* before and a node after.
IsEdgeLine(line) ==
    LET body == Unindent(line)
        arrows == {i \in 1..Len(body) : body[i] = "-->"}
    IN  /\ Cardinality(arrows) = 1
        /\ LET p == Min(arrows)
           IN  /\ p > 2 /\ p + 2 <= Len(body)
               /\ body[p - 1] = " " /\ body[p + 1] = " "
               /\ IsNodeRef(SubSeq(body, 1, p - 2))
               /\ IsNodeRef(SubSeq(body, p + 2, Len(body)))

\* The (identifier, label) declarations of a text, and the identifiers on
\* either side of an arrow.
Declarations(text) ==
    { << text[i], text[i + 2] >> : i \in {j \in 1..Len(text) - 3 :
        text[j] \in NodeIds /\ text[j + 1] = "[" /\ text[j + 3] = "]"} }
UsedIds(text) == {text[i] : i \in {j \in 1..Len(text) : text[j] \in NodeIds}}

WellFormed(text) ==
    LET lines == Lines(text)
    IN  /\ lines[1] = << "graph", " ", "TD" >>
        /\ \A i \in 2..Len(lines) : IsBlank(lines[i]) \/ IsEdgeLine(lines[i])
        /\ \E i \in 2..Len(lines) : IsEdgeLine(lines[i])
        /\ \A id \in UsedIds(text) : \E d \in Declarations(text) : d[1] = id
        /\ \A d, e \in Declarations(text) : d[1] = e[1] => d[2] = e[2]

\* C23: the diagram description of every stored bundle, whichever of the four
\* combinations of UI-framework and persistence dependency the manifest has,
\* starts with the graph header, has only edge lines `A --> B` besides blank
\* lines, declares every node identifier it uses with a label, and declares
\* none with two different labels.
C23_DiagramWellFormed ==
    documentation # NULL => WellFormed(documentation.mermaidDiagram.text)

\* C23 witness: the generic topology with the data-layer branch was stored,
\* its branch hanging on node C and declaring the nodes G and H.
C23_Witness ==
    /\ documentation # NULL
    /\ documentation.mermaidDiagram.topology = "generic"
    /\ documentation.mermaidDiagram.dataLayer
    /\ << "G", "Database" >> \in Declarations(documentation.mermaidDiagram.text)
    /\ Len(Lines(documentation.mermaidDiagram.text)) = 10

\* The last run that called setRepository, and the last that called
\* setDocumentation (0 when none did).
LastRepositoryWriter == Max({0} \cup {r \in Runs : calls[r].setRepository > 0})
LastDocumentationWriter == Max({0} \cup {r \in Runs : calls[r].setDocumentation > 0})

\* C24: whenever no run is in flight and the repository record and the bundle
\* are both present, the same run wrote them and they name the same
\* repository and owner; and a run that failed wrote neither of them.
C24_RecordMatchesBundle ==
    /\ (InFlight = {} /\ repository # NULL /\ documentation # NULL) =>
          /\ LastRepositoryWriter = LastDocumentationWriter
          /\ documentation.overview.title = repository.name
          /\ documentation.overview.owner = repository.owner
    /\ \A r \in Runs : outcome[r].result = "failed" =>
          calls[r].setRepository = 0 /\ calls[r].setDocumentation = 0

\* C22: on every text, each turn of the scanning loop of extractFunctions and
\* of extractImports leaves lastIndex further in the text than it found it, a
\* pass pushes at most as many matches as the text has tokens, the pass
\* returns, and what it returns is the finite sequence the function gives.
C22_ExtractionTerminates ==
    /\ [][ (scan # NULL /\ ~scan.returning /\ ~scan'.returning)
             => /\ scan'.lastIndex > scan.lastIndex
                /\ scan'.lastIndex <= Len(scan.content) + 1 ]_vars
    /\ [](scan # NULL => Len(scan.matches) <= Len(scan.content))
    /\ <>(scan # NULL /\ scan.returning)
    /\ []((scan # NULL /\ scan.returning) =>
            /\ Len(scan.returned) <= Len(scan.content)
            /\ scan.returned = IF scan.fn = "extractFunctions"
                               THEN extractFunctions(scan.content)
                               ELSE extractImports(scan.content))

\* C22 witness: a pass of extractFunctions went round the loop three times
\* and a pass of extractImports twice, and each returned its captures.
C22_Witness ==
    /\ scan # NULL /\ scan.returning
    /\ \/ scan.fn = "extractFunctions" /\ scan.returned = << "start", "App", "x" >>
       \/ /\ scan.fn = "extractImports"
          /\ scan.returned = << "'./App'", "'./App'" >>
          /\ "\n" \in {scan.content[i] : i \in 1..Len(scan.content)}

\* C25: whenever the component has a chart and every mermaid.render call it
\* started has settled, the container shows the svg of that chart or the
\* error placeholder; a call started for an earlier chart that settles late
\* does not replace what the call for the current chart wrote.
C25_LatestChartDisplayed ==
    (ChartGiven(chart) /\ renders = <<>>) => innerHTML \in {Svg(chart), ErrorPlaceholder}
====
